---- MODULE Spec2Model ----
(***************************************************************************)
(* Model of gores-mapgen's two scripts:                                    *)
(*   scripts/update_gen_config.py  (config migration to version 1.0)       *)
(*   testing_formulas.py           (max-radius formula reimplementations)  *)
(*                                                                         *)
(* JSON / Python values are records of one uniform shape so that any two   *)
(* values can be compared: t is the Python type, q the number (an exact    *)
(* rational), s the string, keys/items the dict keys and the list or dict  *)
(* members in iteration order.                                             *)
(***************************************************************************)
EXTENDS Integers, Sequences, FiniteSets, TLC

VARIABLES
    \* update_gen_config.py main()
    argv, fs, platform, pc, idx, config, new_config, err, log, exit_code,
    fs0, pre, hist,
    \* convert_to_1_0 called on its own
    old_json, new_json,
    \* testing_formulas.py
    size, radii, computed

vars == <<argv, fs, platform, pc, idx, config, new_config, err, log, exit_code,
          fs0, pre, hist, old_json, new_json, size, radii, computed>>

mainVars == <<argv, fs, platform, pc, idx, config, new_config, err, log,
              exit_code, fs0, pre, hist>>
convVars == <<old_json, new_json>>
radiiVars == <<size, radii, computed>>

(***************************************************************************)
(* Bounds                                                                  *)
(***************************************************************************)
MaxVal == 1        \* entry elements are drawn from 0..MaxVal
MaxEntryLen == 3   \* elements per entry of a pair list
MaxPairs == 2      \* entries per pair list
MaxWeight == 2     \* weights are drawn from -1..MaxWeight
MaxWeights == 2    \* length of shift_weights
MaxArgs == 2       \* number of paths on the command line
MaxSuffix == 1     \* ".bak" suffixes a command-line path may already carry
MaxSize == 8       \* sizes given to the radius functions

(***************************************************************************)
(* Exact rational arithmetic (Python numbers, "in exact arithmetic")       *)
(***************************************************************************)
Abs(x) == IF x < 0 THEN -x ELSE x

RECURSIVE GCD(_, _)
GCD(a, b) == IF b = 0 THEN a ELSE GCD(b, a % b)

\* the rational n/d in lowest terms with a positive denominator (d # 0)
Q(n, d) ==
    LET g == GCD(Abs(n), Abs(d))
        sgn == IF d < 0 THEN -1 ELSE 1
    IN [n |-> sgn * (n \div g), d |-> sgn * (d \div g)]

QInt(n) == [n |-> n, d |-> 1]
QAdd(x, y) == Q(x.n * y.d + y.n * x.d, x.d * y.d)
QSub(x, y) == Q(x.n * y.d - y.n * x.d, x.d * y.d)
QMul(x, y) == Q(x.n * y.n, x.d * y.d)
\* x / y for y # 0
QDiv(x, y) == Q(x.n * y.d, x.d * y.n)
QSq(x) == QMul(x, x)
\* int(x): truncation toward zero
QTrunc(x) == IF x.n >= 0 THEN x.n \div x.d ELSE -((-x.n) \div x.d)

(***************************************************************************)
(* Python / JSON values                                                    *)
(***************************************************************************)
Num(q) == [t |-> "num", q |-> q, s |-> "", keys |-> <<>>, items |-> <<>>]
IntV(n) == Num(QInt(n))
Str(s) == [t |-> "str", q |-> QInt(0), s |-> s, keys |-> <<>>, items |-> <<>>]
None == [t |-> "null", q |-> QInt(0), s |-> "", keys |-> <<>>, items |-> <<>>]
List(items) ==
    [t |-> "list", q |-> QInt(0), s |-> "", keys |-> <<>>, items |-> items]
Dict(keys, items) ==
    [t |-> "dict", q |-> QInt(0), s |-> "", keys |-> keys, items |-> items]

\* results of an evaluation that may raise: e is the exception ("" if none)
Ok(v) == [e |-> "", v |-> v]
Raise(e) == [e |-> e, v |-> None]

\* range(n)
Range(n) == IF n <= 0 THEN <<>> ELSE [i \in 1..n |-> i - 1]

\* the characters of the strings that get indexed or iterated: the keys of
\* a version 1.0 table; any other string of the model is a single character
Chars(s) ==
    CASE s = "values" -> <<"v", "a", "l", "u", "e", "s">>
      [] s = "probs" -> <<"p", "r", "o", "b", "s">>
      [] OTHER -> <<s>>

\* iter(v): a list yields its items, a dict its keys, a str its characters
PyIter(v) ==
    CASE v.t = "list" -> Ok(List(v.items))
      [] v.t = "dict" -> Ok(List([i \in 1..Len(v.keys) |-> Str(v.keys[i])]))
      [] v.t = "str" ->
            Ok(List([i \in 1..Len(Chars(v.s)) |-> Str(Chars(v.s)[i])]))
      [] OTHER -> Raise("TypeError")

\* a mutant of PyIndex: an index out of range yields None instead of raising
PyIndexLenient(v, i) ==
    CASE v.t = "list" ->
            IF i < Len(v.items) THEN Ok(v.items[i + 1]) ELSE Ok(None)
      [] v.t = "str" ->
            IF i < Len(Chars(v.s)) THEN Ok(Str(Chars(v.s)[i + 1]))
            ELSE Ok(None)
      [] v.t = "dict" -> Raise("KeyError")
      [] OTHER -> Raise("TypeError")

\* v[i] for an integer i >= 0
PyIndex(v, i) ==
    CASE v.t = "list" ->
            IF i < Len(v.items) THEN Ok(v.items[i + 1])
            ELSE Raise("IndexError")
      [] v.t = "str" ->
            IF i < Len(Chars(v.s)) THEN Ok(Str(Chars(v.s)[i + 1]))
            ELSE Raise("IndexError")
      [] v.t = "dict" -> Raise("KeyError")
      [] OTHER -> Raise("TypeError")

\* sum(items): 0 + items[1] + items[2] + ..., TypeError on a non-number
RECURSIVE SumFrom(_, _, _)
SumFrom(items, i, acc) ==
    IF i > Len(items) THEN Ok(Num(acc))
    ELSE IF items[i].t # "num" THEN Raise("TypeError")
    ELSE SumFrom(items, i + 1, QAdd(acc, items[i].q))

PySum(v) ==
    LET it == PyIter(v)
    IN IF it.e # "" THEN it ELSE SumFrom(it.v.items, 1, QInt(0))

\* w / s
PyDiv(w, s) ==
    IF w.t # "num" \/ s.t # "num" THEN Raise("TypeError")
    ELSE IF s.q.n = 0 THEN Raise("ZeroDivisionError")
    ELSE Ok(Num(QDiv(w.q, s.q)))

(***************************************************************************)
(* dict operations                                                         *)
(***************************************************************************)
HasKey(d, k) == \E i \in 1..Len(d.keys) : d.keys[i] = k
KeyIndex(d, k) == CHOOSE i \in 1..Len(d.keys) : d.keys[i] = k

\* a mutant of DictGet: a value that is not a list is replaced by the default
DictGetListOnly(d, k, default) ==
    IF HasKey(d, k) /\ d.items[KeyIndex(d, k)].t = "list"
    THEN d.items[KeyIndex(d, k)] ELSE default

\* d.get(k, default)
DictGet(d, k, default) ==
    IF HasKey(d, k) THEN d.items[KeyIndex(d, k)] ELSE default

\* d[k] = v: an existing key keeps its position, a new key goes last
DictSet(d, k, v) ==
    IF HasKey(d, k)
    THEN Dict(d.keys, [d.items EXCEPT ![KeyIndex(d, k)] = v])
    ELSE Dict(Append(d.keys, k), Append(d.items, v))

\* dict(items) for a list of (key, value) pairs given as two parallel
\* sequences: a repeated key keeps its first position and its last value
RECURSIVE DictFrom(_, _, _, _)
DictFrom(keys, items, i, acc) ==
    IF i > Len(keys) THEN acc
    ELSE DictFrom(keys, items, i + 1, DictSet(acc, keys[i], items[i]))

PyDict(keys, items) == DictFrom(keys, items, 1, Dict(<<>>, <<>>))

\* list.insert(position, x): a position past the end appends
ListInsert(seq, position, x) ==
    LET p == IF position > Len(seq) THEN Len(seq) ELSE position
    IN SubSeq(seq, 1, p) \o <<x>> \o SubSeq(seq, p + 1, Len(seq))

\* a mutant of insert_at_position: the new key is added as d[key] = value
insert_at_end(d, key, value, position) == DictSet(d, key, value)

insert_at_position(d, key, value, position) ==
    PyDict(ListInsert(d.keys, position, key),
           ListInsert(d.items, position, value))

(***************************************************************************)
(* convert_to_1_0                                                          *)
(***************************************************************************)
VersionPosition == 2

\* [item[i] for item in v]: the first exception raised wins
RECURSIVE ColumnFrom(_, _, _, _)
ColumnFrom(items, i, k, acc) ==
    IF k > Len(items) THEN Ok(List(acc))
    ELSE LET x == PyIndex(items[k], i)
         IN IF x.e # "" THEN x
            ELSE ColumnFrom(items, i, k + 1, Append(acc, x.v))

\* a mutant of Column: the column is read back to front
ColumnReversed(v, i) ==
    LET it == PyIter(v)
        r == IF it.e # "" THEN it ELSE ColumnFrom(it.v.items, i, 1, <<>>)
    IN IF r.e # "" THEN r
       ELSE Ok(List([j \in 1..Len(r.v.items) |->
                        r.v.items[Len(r.v.items) + 1 - j]]))

Column(v, i) ==
    LET it == PyIter(v)
    IN IF it.e # "" THEN it ELSE ColumnFrom(it.v.items, i, 1, <<>>)

RECURSIVE DivideFrom(_, _, _, _)
DivideFrom(items, v, k, acc) ==
    IF k > Len(items) THEN Ok(List(acc))
    ELSE LET s == PySum(v)
             x == IF s.e # "" THEN s ELSE PyDiv(items[k], s.v)
         IN IF x.e # "" THEN x
            ELSE DivideFrom(items, v, k + 1, Append(acc, x.v))

\* a mutant of Normalize: every weight is divided by the number of weights
NormalizeByCount(v) ==
    LET it == PyIter(v)
    IN IF it.e # "" THEN it
       ELSE IF Len(it.v.items) = 0 THEN Ok(List(<<>>))
       ELSE LET s == PySum(v)
            IN IF s.e # "" THEN s
               ELSE IF s.v.q.n = 0 THEN Raise("ZeroDivisionError")
               ELSE Ok(List([k \in 1..Len(it.v.items) |->
                      Num(QDiv(it.v.items[k].q, QInt(Len(it.v.items))))]))

\* [w / sum(shift_weights) for w in shift_weights]
Normalize(v) ==
    LET it == PyIter(v)
    IN IF it.e # "" THEN it ELSE DivideFrom(it.v.items, v, 1, <<>>)

Table(values, probs) == Dict(<<"values", "probs">>, <<values, probs>>)

convert_to_1_0(old) ==
    IF old.t # "dict" THEN Raise("AttributeError")
    ELSE
    LET inner_size_probs == DictGet(old, "inner_size_probs", List(<<>>))
        outer_margin_probs == DictGet(old, "outer_margin_probs", List(<<>>))
        shift_weights == Normalize(DictGet(old, "shift_weights", List(<<>>)))
        iv == Column(inner_size_probs, 0)
        ip == Column(inner_size_probs, 1)
        ov == Column(outer_margin_probs, 0)
        op == Column(outer_margin_probs, 1)
    IN  IF shift_weights.e # "" THEN shift_weights
        ELSE IF iv.e # "" THEN iv
        ELSE IF ip.e # "" THEN ip
        ELSE IF ov.e # "" THEN ov
        ELSE IF op.e # "" THEN op
        ELSE
        LET j1 == DictSet(old, "inner_size_probs", Table(iv.v, ip.v))
            j2 == DictSet(j1, "outer_margin_probs", Table(ov.v, op.v))
            j3 == DictSet(j2, "shift_weights", Table(None, shift_weights.v))
        IN Ok(insert_at_position(j3, "version", Str("1.0"), VersionPosition))

(***************************************************************************)
(* Inputs of convert_to_1_0                                                *)
(***************************************************************************)
\* marks a field the config does not carry
Missing == [t |-> "missing", q |-> QInt(0), s |-> "", keys |-> <<>>,
            items |-> <<>>]

SeqsUpTo(S, n) == UNION {[1..k -> S] : k \in 0..n}

NumList(f) == List([i \in 1..Len(f) |-> IntV(f[i])])

\* entries of a pair list: lists of 0..MaxEntryLen numbers
Entries == {NumList(f) : f \in SeqsUpTo(0..MaxVal, MaxEntryLen)}
PairLists == {List(f) : f \in SeqsUpTo(Entries, MaxPairs)}
WeightLists == {NumList(f) : f \in SeqsUpTo(-1..MaxWeight, MaxWeights)}

\* fields as version 1.0 writes them
SomeTable == Table(List(<<IntV(0), IntV(1)>>),
                   List(<<Num(Q(1, 2)), Num(Q(1, 2))>>))
SomeWeightTable == Table(None, List(<<Num(Q(1, 4)), Num(Q(3, 4))>>))
EmptyDict == Dict(<<>>, <<>>)

GoodPairs == List(<<NumList(<<0, 1>>), NumList(<<1, 0>>)>>)
GoodWeights == NumList(<<1, 3>>)

PairOpts == PairLists \cup {Missing, SomeTable, EmptyDict, None, Str("x")}
PairFew == {Missing, GoodPairs}
WeightOpts == WeightLists \cup
    {Missing, SomeWeightTable, EmptyDict, None, List(<<Str("x")>>)}
WeightFew == {Missing, GoodWeights}

PassKeys == <<"a", "b", "c">>
FieldKeys == <<"inner_size_probs", "outer_margin_probs", "shift_weights">>

\* the keys of a config: k passthrough keys, the fields before or after
\* them, and possibly a key named version in first or in last position
Layouts == [k : 0..Len(PassKeys), front : BOOLEAN,
            version : {"none", "first", "last"}]
LayoutsFew == {l \in Layouts : l.version = "none" /\ ~l.front /\ l.k = 2}

MkConfig(l, inner, outer, shift) ==
    LET pk == SubSeq(PassKeys, 1, l.k)
        pv == [i \in 1..l.k |-> IntV(i)]
        fv == <<inner, outer, shift>>
        present == SelectSeq(<<1, 2, 3>>, LAMBDA i : fv[i] # Missing)
        fk == [i \in 1..Len(present) |-> FieldKeys[present[i]]]
        fi == [i \in 1..Len(present) |-> fv[present[i]]]
        keys0 == IF l.front THEN fk \o pk ELSE pk \o fk
        items0 == IF l.front THEN fi \o pv ELSE pv \o fi
    IN CASE l.version = "first" ->
                Dict(<<"version">> \o keys0, <<Str("0.9")>> \o items0)
         [] l.version = "last" ->
                Dict(keys0 \o <<"version">>, items0 \o <<Str("0.9")>>)
         [] OTHER -> Dict(keys0, items0)

Configs ==
    {MkConfig(l, i, o, w) : l \in LayoutsFew, i \in PairOpts, o \in PairFew,
                            w \in WeightFew}
    \cup
    {MkConfig(l, i, o, w) : l \in LayoutsFew, i \in PairFew, o \in PairOpts,
                            w \in WeightFew}
    \cup
    {MkConfig(l, i, o, w) : l \in LayoutsFew, i \in PairFew, o \in PairFew,
                            w \in WeightOpts}
    \cup
    {MkConfig(l, i, o, w) : l \in Layouts, i \in PairFew, o \in PairFew,
                            w \in WeightFew}
    \cup {List(<<>>)}

NotCalled == Raise("not called")

(***************************************************************************)
(* Idle values of the variables a specification does not use               *)
(***************************************************************************)
MainIdle ==
    /\ argv = <<>> /\ fs = <<>> /\ platform = "posix" /\ pc = "idle"
    /\ idx = 0 /\ config = None /\ new_config = None
    /\ err = [step |-> "", e |-> ""]
    /\ log = <<>> /\ exit_code = 0 /\ fs0 = <<>> /\ pre = None
    /\ hist = <<>>

ConvIdle == old_json = None /\ new_json = NotCalled

RadiiIdle == size = 0 /\ radii = <<>> /\ computed = {}

(***************************************************************************)
(* convert_to_1_0 called on every input of Configs                         *)
(***************************************************************************)
InitConvert ==
    /\ old_json \in Configs
    /\ new_json = NotCalled
    /\ MainIdle /\ RadiiIdle

CallConvert ==
    /\ new_json = NotCalled
    /\ new_json' = convert_to_1_0(old_json)
    /\ UNCHANGED <<old_json, mainVars, radiiVars>>

NextConvert == CallConvert

SpecConvert == InitConvert /\ [][NextConvert]_vars

Called == new_json # NotCalled
Returned == Called /\ new_json.e = ""

\* the value convert_to_1_0 reads for a field
FieldIn(k) == DictGet(old_json, k, List(<<>>))
FieldOut(k) == DictGet(new_json.v, k, None)
PairFields == {"inner_size_probs", "outer_margin_probs"}

IsEntryList(v) ==
    v.t = "list" /\ \A i \in 1..Len(v.items) : v.items[i].t = "list"
IsPairList(v) ==
    IsEntryList(v) /\ \A i \in 1..Len(v.items) : Len(v.items[i].items) = 2
IsNumList(v) ==
    v.t = "list" /\ \A i \in 1..Len(v.items) : v.items[i].t = "num"

RECURSIVE QSumFrom(_, _)
QSumFrom(items, i) ==
    IF i > Len(items) THEN QInt(0)
    ELSE QAdd(items[i].q, QSumFrom(items, i + 1))
QSum(v) == QSumFrom(v.items, 1)

PairsValid ==
    old_json.t = "dict" /\ \A k \in PairFields : IsPairList(FieldIn(k))
WeightsValid ==
    /\ old_json.t = "dict"
    /\ IsNumList(FieldIn("shift_weights"))
    /\ (Len(FieldIn("shift_weights").items) > 0
            => QSum(FieldIn("shift_weights")).n # 0)

IsSplitOf(table, pairs) ==
    /\ table.t = "dict" /\ table.keys = <<"values", "probs">>
    /\ table.items[1].t = "list" /\ table.items[2].t = "list"
    /\ Len(table.items[1].items) = Len(pairs.items)
    /\ Len(table.items[2].items) = Len(pairs.items)
    /\ \A i \in 1..Len(pairs.items) :
          <<table.items[1].items[i], table.items[2].items[i]>>
              = <<pairs.items[i].items[1], pairs.items[i].items[2]>>

\* C1: for a config whose two pair fields are (possibly empty or absent)
\* lists of 2-element pairs, the result carries for each field a table whose
\* values and probs are as long as the pair list and hold, index by index,
\* the first and the second element of each pair; the conversion returns
\* whenever shift_weights is valid too.
C1_SplitPairs ==
    (Called /\ PairsValid) =>
        /\ WeightsValid => Returned
        /\ Returned => \A k \in PairFields :
                            IsSplitOf(FieldOut(k), FieldIn(k))

C1_Witness ==
    /\ Returned /\ PairsValid
    /\ Len(FieldIn("inner_size_probs").items) = 2
    /\ FieldIn("inner_size_probs").items[1]
          # FieldIn("inner_size_probs").items[2]
    /\ FieldIn("inner_size_probs").items[1].items[1]
          # FieldIn("inner_size_probs").items[1].items[2]

IsNormalized(table, weights) ==
    /\ table.t = "dict" /\ table.keys = <<"values", "probs">>
    /\ table.items[1] = None
    /\ table.items[2].t = "list"
    /\ Len(table.items[2].items) = Len(weights.items)
    /\ \A i \in 1..Len(weights.items) :
          table.items[2].items[i] = Num(QDiv(weights.items[i].q, QSum(weights)))
    /\ QSum(table.items[2]) = QInt(1)

\* C2: shift_weights absent or empty gives values = null and no probs and
\* raises nothing; non-empty weights with a non-zero sum give values = null
\* and probs[i] = weights[i] / sum(weights), which sum to 1; non-empty
\* weights that sum to zero raise ZeroDivisionError and nothing is returned.
C2_ShiftWeights ==
    (Called /\ old_json.t = "dict" /\ IsNumList(FieldIn("shift_weights"))) =>
        LET w == FieldIn("shift_weights")
        IN  CASE Len(w.items) = 0 ->
                    /\ new_json.e # "ZeroDivisionError"
                    /\ PairsValid => Returned
                    /\ Returned =>
                          FieldOut("shift_weights") = Table(None, List(<<>>))
              [] Len(w.items) > 0 /\ QSum(w).n # 0 ->
                    /\ new_json.e # "ZeroDivisionError"
                    /\ PairsValid => Returned
                    /\ Returned => IsNormalized(FieldOut("shift_weights"), w)
              [] OTHER -> new_json.e = "ZeroDivisionError"

C2_Witness ==
    /\ Returned
    /\ FieldIn("shift_weights") = NumList(<<2, -1>>)
    /\ FieldOut("shift_weights")
          = Table(None, List(<<Num(Q(2, 1)), Num(Q(-1, 1))>>))

C2_WitnessZero ==
    /\ Called /\ new_json.e = "ZeroDivisionError"
    /\ FieldIn("shift_weights") = NumList(<<1, -1>>)

KeysIn(d, S) == SelectSeq(d.keys, LAMBDA k : k \in S)
KeySet(d) == {d.keys[i] : i \in 1..Len(d.keys)}
FieldKeySet == {FieldKeys[i] : i \in 1..Len(FieldKeys)}

VersionSpliced ==
    /\ new_json.v.t = "dict"
    /\ Len(new_json.v.keys) > VersionPosition
    /\ new_json.v.keys[VersionPosition + 1] = "version"
    /\ new_json.v.items[VersionPosition + 1] = Str("1.0")
    /\ KeySet(new_json.v) = KeySet(old_json) \cup FieldKeySet \cup {"version"}
    /\ KeysIn(new_json.v, KeySet(old_json) \ {"version"})
          = KeysIn(old_json, KeySet(old_json) \ {"version"})
    /\ KeysIn(new_json.v, KeySet(new_json.v) \ {"version"})
          = KeysIn(old_json, KeySet(old_json) \ {"version"})
             \o SelectSeq(FieldKeys, LAMBDA k : ~HasKey(old_json, k))
    /\ \A k \in KeySet(old_json) \ FieldKeySet :
          DictGet(new_json.v, k, None) = DictGet(old_json, k, Missing)

\* C3 as stated: for every input mapping the result has version = "1.0" at
\* index 2, the other keys in their original relative order, and every key
\* that is not a probability field with its input value.
C3_AnyMapping == Returned => VersionSpliced

\* C3: for every input mapping that does not already carry a key named
\* version, the result has version = "1.0" at index 2 (zero-based), the
\* other keys in their original relative order, and every key that is not
\* a probability field with its input value.
C3_VersionThird ==
    (Returned /\ ~HasKey(old_json, "version")) => VersionSpliced

C3_Witness ==
    /\ Returned /\ ~HasKey(old_json, "version")
    /\ Len(old_json.keys) = 6
    /\ old_json.keys[1] = "inner_size_probs"
    /\ new_json.v.keys = <<"inner_size_probs", "outer_margin_probs",
                           "version", "shift_weights", "a", "b", "c">>

HasEntryWhere(P(_)) ==
    /\ old_json.t = "dict"
    /\ \E k \in PairFields :
          /\ IsEntryList(FieldIn(k))
          /\ \E i \in 1..Len(FieldIn(k).items) : P(Len(FieldIn(k).items[i].items))

IsNotTwo(n) == n # 2
IsBelowTwo(n) == n < 2

\* C8 as stated: the conversion fails whenever an entry of a pair field has
\* fewer than two or more than two elements.
C8_NotTwoFails == (Called /\ HasEntryWhere(IsNotTwo)) => new_json.e # ""

\* C8: the conversion fails, and returns nothing, whenever an entry of
\* inner_size_probs or outer_margin_probs has fewer than two elements (an
\* entry with more than two elements is not rejected).
C8_ShortFails == (Called /\ HasEntryWhere(IsBelowTwo)) => new_json.e # ""

C8_Witness ==
    /\ Called /\ HasEntryWhere(IsBelowTwo) /\ new_json.e = "IndexError"
    /\ WeightsValid

(***************************************************************************)
(* Files and paths of main()                                               *)
(***************************************************************************)
\* a path is a base name followed by baks ".bak" suffixes
Bases == {"a", "b"}
Path(base, baks) == [base |-> base, baks |-> baks]
Bak(path) == Path(path.base, path.baks + 1)

ArgPaths == {Path(b, k) : b \in Bases, k \in 0..MaxSuffix}
AllPaths == {Path(b, k) : b \in Bases, k \in 0..(MaxSuffix + 1)}

\* a file: JSON text laid out with some indentation, or text that is not
\* JSON; the text of an object may repeat a key
File(kind, indent, text) == [kind |-> kind, indent |-> indent, text |-> text]
Absent == File("absent", 0, None)
Garbage == File("garbage", 0, None)
Truncated == File("truncated", 2, None)

\* json.load: the last value of a repeated key wins
json_load(file) ==
    IF file.kind # "json" THEN Raise("JSONDecodeError")
    ELSE IF file.text.t = "dict"
         THEN Ok(PyDict(file.text.keys, file.text.items))
         ELSE Ok(file.text)

\* a mutant of json_dump: the default layout, without indent=2
json_dump_compact(obj) == File("json", 0, obj)

\* json.dump(obj, file, indent=2)
json_dump(obj) == File("json", 2, obj)

\* a mutant of os_rename: a refused rename has already removed dst
os_rename_nonatomic(files, src, dst, plat) ==
    IF files[src] = Absent
    THEN [e |-> "FileNotFoundError", fs |-> files]
    ELSE IF plat = "windows" /\ files[dst] # Absent
    THEN [e |-> "FileExistsError", fs |-> [files EXCEPT ![dst] = Absent]]
    ELSE [e |-> "",
          fs |-> [files EXCEPT ![dst] = files[src], ![src] = Absent]]

\* os.rename(src, dst): replaces an existing dst silently on Unix, raises
\* FileExistsError on Windows
os_rename(files, src, dst, plat) ==
    IF files[src] = Absent
    THEN [e |-> "FileNotFoundError", fs |-> files]
    ELSE IF plat = "windows" /\ files[dst] # Absent
    THEN [e |-> "FileExistsError", fs |-> files]
    ELSE [e |-> "",
          fs |-> [files EXCEPT ![dst] = files[src], ![src] = Absent]]

\* file contents the run may find
LegacyText ==
    File("json", 4,
         Dict(<<"a", "b", "a", "inner_size_probs", "outer_margin_probs",
                "shift_weights">>,
              <<IntV(1), IntV(2), IntV(3), GoodPairs, List(<<>>),
                GoodWeights>>))
ZeroSumText ==
    File("json", 0, Dict(<<"a", "shift_weights">>,
                         <<IntV(1), NumList(<<0, 0>>)>>))
OldBackup ==
    File("json", 0, Dict(<<"shift_weights", "a">>,
                         <<NumList(<<1, 1>>), IntV(7)>>))
MigratedText == json_dump(convert_to_1_0(json_load(OldBackup).v).v)

InitFiles == {Absent, LegacyText, ZeroSumText, Garbage, MigratedText}
InitBackups == {Absent, OldBackup}

(***************************************************************************)
(* main()                                                                  *)
(***************************************************************************)
NoPath == Path("", 0)
LogLine(msg, path) == [msg |-> msg, path |-> path]
NoErr == [step |-> "", e |-> ""]

Init ==
    /\ argv \in SeqsUpTo(ArgPaths, MaxArgs)
    /\ \E files \in [Bases -> InitFiles], backups \in [Bases -> InitBackups] :
          fs = [p \in AllPaths |->
                   CASE p.baks = 0 -> files[p.base]
                     [] p.baks = 1 -> backups[p.base]
                     [] OTHER -> Absent]
    /\ platform \in {"posix", "windows"}
    /\ pc = "start"
    /\ idx = 0
    /\ config = None
    /\ new_config = None
    /\ err = NoErr
    /\ log = <<>>
    /\ exit_code = 0
    /\ fs0 = fs
    /\ pre = Absent
    /\ hist = <<>>
    /\ ConvIdle /\ RadiiIdle

\* a mutant of Fail: the exception is swallowed and the loop goes on
FailSwallowed(step, e) ==
    /\ pc' = "saved"
    /\ err' = [step |-> step, e |-> e]
    /\ exit_code' = 0

\* an uncaught exception ends the process
Fail(step, e) ==
    /\ pc' = "error"
    /\ err' = [step |-> step, e |-> e]
    /\ exit_code' = 1

\* lines 49-51: no path given
Usage ==
    /\ pc = "start"
    /\ Len(argv) < 1
    /\ log' = Append(log, LogLine("Usage", NoPath))
    /\ exit_code' = 1
    /\ pc' = "exit"
    /\ UNCHANGED <<argv, fs, platform, idx, config, new_config, err, fs0, pre,
                   hist, convVars, radiiVars>>

\* line 53: the loop takes the first path
Begin ==
    /\ pc = "start"
    /\ Len(argv) >= 1
    /\ idx' = 1
    /\ pc' = "load"
    /\ UNCHANGED <<argv, fs, platform, config, new_config, err, log,
                   exit_code, fs0, pre, hist, convVars, radiiVars>>

\* lines 54-56: open and parse the file
Load ==
    /\ pc = "load"
    /\ log' = Append(log, LogLine("loading", argv[idx]))
    /\ fs0' = fs
    /\ LET file == fs[argv[idx]]
           r == json_load(file)
       IN IF file = Absent
          THEN /\ Fail("load", "FileNotFoundError")
               /\ UNCHANGED <<config, pre>>
          ELSE IF r.e # ""
          THEN /\ Fail("load", r.e)
               /\ UNCHANGED <<config, pre>>
          ELSE /\ config' = r.v
               /\ pre' = file
               /\ pc' = "convert"
               /\ UNCHANGED <<err, exit_code>>
    /\ UNCHANGED <<argv, fs, platform, idx, new_config, hist, convVars,
                   radiiVars>>

\* line 59
Convert ==
    /\ pc = "convert"
    /\ LET r == convert_to_1_0(config)
       IN IF r.e # ""
          THEN /\ Fail("convert", r.e)
               /\ UNCHANGED <<new_config, log>>
          ELSE /\ new_config' = r.v
               /\ log' = Append(log, LogLine("> updated to version 1.0",
                                             NoPath))
               /\ pc' = "rename"
               /\ UNCHANGED <<err, exit_code>>
    /\ UNCHANGED <<argv, fs, platform, idx, config, fs0, pre, hist, convVars,
                   radiiVars>>

\* lines 62-63: the rename may also be refused by the system (OSError)
Rename ==
    /\ pc = "rename"
    /\ \E refused \in BOOLEAN :
          LET r == os_rename(fs, argv[idx], Bak(argv[idx]), platform)
          IN IF refused
             THEN /\ Fail("rename", "OSError")
                  /\ UNCHANGED fs
             ELSE IF r.e # ""
             THEN /\ Fail("rename", r.e)
                  /\ fs' = r.fs
             ELSE /\ fs' = r.fs
                  /\ pc' = "write"
                  /\ UNCHANGED <<err, exit_code>>
    /\ UNCHANGED <<argv, platform, idx, config, new_config, log, fs0, pre,
                   hist, convVars, radiiVars>>

\* lines 66-67: open(path, 'w') may fail, and so may the writing
Write ==
    /\ pc = "write"
    /\ \E fault \in {"", "open", "dump"} :
          CASE fault = "open" ->
                  /\ Fail("write", "OSError")
                  /\ UNCHANGED fs
            [] fault = "dump" ->
                  /\ Fail("write", "OSError")
                  /\ fs' = [fs EXCEPT ![argv[idx]] = Truncated]
            [] OTHER ->
                  /\ fs' = [fs EXCEPT ![argv[idx]] = json_dump(new_config)]
                  /\ pc' = "saved"
                  /\ UNCHANGED <<err, exit_code>>
    /\ UNCHANGED <<argv, platform, idx, config, new_config, log, fs0, pre,
                   hist, convVars, radiiVars>>

\* line 69, then the loop takes the next path or ends
Saved ==
    /\ pc = "saved"
    /\ log' = Append(log, LogLine("saved", argv[idx]))
    /\ hist' = Append(hist, [path |-> argv[idx], pre |-> pre,
                             written |-> fs[argv[idx]]])
    /\ IF idx < Len(argv)
       THEN idx' = idx + 1 /\ pc' = "load"
       ELSE idx' = idx /\ pc' = "exit"
    /\ UNCHANGED <<argv, fs, platform, config, new_config, err, exit_code,
                   fs0, pre, convVars, radiiVars>>

Next == Usage \/ Begin \/ Load \/ Convert \/ Rename \/ Write \/ Saved

Spec == Init /\ [][Next]_vars

(***************************************************************************)
(* Properties of main()                                                    *)
(***************************************************************************)
CurPath == argv[idx]

\* what the migration of a file holding prefile must leave at its path
MigrationOf(prefile) ==
    File("json", 2, convert_to_1_0(json_load(prefile).v).v)

C4_Completed ==
    pc = "saved" =>
        /\ pre = fs0[CurPath]
        /\ fs[Bak(CurPath)] = pre
        /\ fs[CurPath] = MigrationOf(pre)

C4_Order ==
    fs' # fs =>
        \/ /\ fs[CurPath] = pre
           /\ pre = fs0[CurPath]
           /\ new_config = convert_to_1_0(json_load(pre).v).v
           /\ fs' = [fs EXCEPT ![Bak(CurPath)] = pre, ![CurPath] = Absent]
        \/ /\ fs[Bak(CurPath)] = pre
           /\ fs[CurPath] = Absent
           /\ \A p \in AllPaths \ {CurPath} : fs'[p] = fs[p]

\* C4: when the migration of a path F has completed without error, F.bak
\* holds the content F had before the migration started and F holds the
\* indent-2 serialization of convert_to_1_0 of that content; the file system
\* changes only by the rename of F to F.bak, made once the conversion is
\* computed and F is still untouched, and then by the write to F, made once
\* F.bak holds the original.
C4_BackupThenWrite == [](C4_Completed) /\ [][C4_Order]_vars

C4_Witness ==
    /\ pc = "saved" /\ pre = LegacyText
    /\ fs[Bak(CurPath)] = LegacyText
    /\ fs[CurPath].text.keys = <<"a", "b", "version", "inner_size_probs",
                                 "outer_margin_probs", "shift_weights">>

\* C5: when a file exists at <path>.bak as the rename step is reached, the
\* rename fails and the error propagates: <path>.bak keeps its content,
\* nothing is written to <path> and the original stays at <path>.
C5_RenameFailsLoudly ==
    [][(pc = "rename" /\ fs[Bak(CurPath)] # Absent)
          => (pc' = "error" /\ fs' = fs)]_vars

SecondRun == idx > 1 /\ argv[idx] = argv[idx - 1]

\* C6: when a path is migrated twice in a row and the first run succeeded,
\* the second run ends in an error before it renames or writes anything:
\* <path>.bak still holds the legacy content and <path> the output of the
\* first run.
C6_SecondRunFails ==
    SecondRun =>
        /\ pc \in {"load", "convert", "error"}
        /\ pc = "error" => exit_code = 1
        /\ fs[Bak(CurPath)] = hist[idx - 1].pre
        /\ fs[CurPath] = hist[idx - 1].written
        /\ fs[CurPath] = MigrationOf(hist[idx - 1].pre)

C6_Witness ==
    /\ SecondRun /\ pc = "error" /\ platform = "posix"
    /\ err = [step |-> "convert", e |-> "TypeError"]
    /\ fs[Bak(CurPath)] = LegacyText

StaysMigrated(j) ==
    /\ fs[Bak(argv[j])] # Absent
    /\ fs[argv[j]] = hist[j].written

\* C7 as stated (its last part): once the migration of a path has failed,
\* every path before it is still migrated.
C7_EarlierStayMigrated ==
    pc = "error" => \A j \in 1..(idx - 1) : StaysMigrated(j)

\* no argument is another argument with ".bak" appended
NoBackupAmongPaths ==
    \A i \in DOMAIN argv, j \in DOMAIN argv : argv[i] # Bak(argv[j])

C7_Sequential ==
    /\ err = NoErr
    /\ pc # "exit"
    /\ idx' # idx => (idx' = idx + 1 /\ pc \in {"start", "saved"})
    /\ \A p \in AllPaths :
          fs'[p] # fs[p] => p \in {CurPath, Bak(CurPath)}
    /\ Len(log') > Len(log) =>
          log'[Len(log')].path
              \in {NoPath} \cup {argv[i] : i \in {idx} \cap DOMAIN argv}

\* C7: the paths are migrated one after another in argument order, each one
\* fully before the next is opened; a failure ends the run, so that no later
\* path is read, renamed or written; and, when no argument is the backup
\* path of another argument, every path before the failing one stays
\* migrated: its .bak is there and its rewritten file holds what the run
\* wrote.
C7_StopAtFirstFailure ==
    /\ [](NoBackupAmongPaths => C7_EarlierStayMigrated)
    /\ [][C7_Sequential]_vars

C7_Witness ==
    /\ pc = "error" /\ idx = 2 /\ NoBackupAmongPaths
    /\ argv[1] # argv[2]
    /\ StaysMigrated(1)
    /\ hist[1].pre = LegacyText
    /\ log[Len(log)] = LogLine("loading", argv[2])

\* C9 as stated: a migration that fails at any step leaves the file system
\* as it was when the migration of that path started.
C9_AnyStepNothingHappened == pc = "error" => fs = fs0

\* C9: with an atomic rename, a migration that fails at its read, parse,
\* convert or rename step leaves the file system as it was when the
\* migration of that path started: the original at the path, no backup made,
\* nothing written.
C9_UpToRenameNothingHappened ==
    (pc = "error" /\ err.step # "write") => fs = fs0

C9_Witness ==
    /\ pc = "error" /\ err = [step |-> "rename", e |-> "FileExistsError"]
    /\ fs[Bak(CurPath)] = OldBackup /\ fs[CurPath] = LegacyText

(***************************************************************************)
(* testing_formulas.py                                                     *)
(***************************************************************************)
get_max_radii(n) ==
    LET center == QDiv(QInt(n - 1), QInt(2))
        max_corner == QTrunc(QSub(QDiv(QInt(n), QInt(2)), QInt(1)))
        depths == Range(max_corner + 1)
    IN [k \in 1..Len(depths) |->
           QAdd(QSq(center), QSq(QSub(center, QInt(depths[k]))))]

get_dist(n, corner_depth) ==
    LET center == QDiv(QInt(n - 1), QInt(2))
    IN QAdd(QSq(center), QSq(QSub(center, QInt(corner_depth))))

get_max_radii_simpl(n) ==
    LET depths == Range(n \div 2)
    IN [k \in 1..Len(depths) |-> get_dist(n, depths[k])]

totally_cursed(n) ==
    LET depths == Range(n \div 2)
    IN [k \in 1..Len(depths) |->
           QAdd(QSq(QDiv(QInt(n - 1), QInt(2))),
                QSq(QSub(QDiv(QInt(n - 1), QInt(2)), QInt(depths[k]))))]

wtf_is_going_on(s, d) ==
    QAdd(QSub(QDiv(QSq(QInt(s - 1)), QInt(2)),
              QMul(QInt(s - 1), QInt(d))),
         QSq(QInt(d)))

even_more_cursed(n) ==
    LET depths == Range(n \div 2)
    IN [k \in 1..Len(depths) |-> wtf_is_going_on(n, depths[k])]

Functions == {"get_max_radii", "get_max_radii_simpl", "totally_cursed",
              "even_more_cursed"}

InitRadii ==
    /\ size \in 0..MaxSize
    /\ radii = [f \in Functions |-> <<>>]
    /\ computed = {}
    /\ MainIdle /\ ConvIdle

Return(f, result) ==
    /\ f \notin computed
    /\ radii' = [radii EXCEPT ![f] = result]
    /\ computed' = computed \cup {f}
    /\ UNCHANGED <<size, mainVars, convVars>>

Call_get_max_radii == Return("get_max_radii", get_max_radii(size))
Call_get_max_radii_simpl ==
    Return("get_max_radii_simpl", get_max_radii_simpl(size))
Call_totally_cursed == Return("totally_cursed", totally_cursed(size))
Call_even_more_cursed == Return("even_more_cursed", even_more_cursed(size))

NextRadii ==
    \/ Call_get_max_radii
    \/ Call_get_max_radii_simpl
    \/ Call_totally_cursed
    \/ Call_even_more_cursed

SpecRadii == InitRadii /\ [][NextRadii]_vars

\* ((size-1)/2)^2 + ((size-1)/2 - d)^2
RadiusAt(n, d) ==
    Q((n - 1) * (n - 1) + (n - 1 - 2 * d) * (n - 1 - 2 * d), 4)

\* C10: for every size >= 0 the four functions return the same list: the
\* same number of entries and at every index d the value
\* ((size-1)/2)^2 + ((size-1)/2 - d)^2.
C10_SameList ==
    \A f \in computed, g \in computed :
        /\ Len(radii[f]) = Len(radii[g])
        /\ \A k \in 1..Len(radii[f]) :
              radii[f][k] = RadiusAt(size, k - 1)

====
